---- MODULE Spec2Model ----
(***************************************************************************)
(* A model of servers/toon_mcp.py: the tokenizer set-up at module load,    *)
(* make_json_safe, count_tokens, toon_with_stats and the two tool entry    *)
(* points to_toon and to_toon_from_string.                                 *)
(*                                                                         *)
(* Texts (JSON text, TOON text, reports, standard error) are TLA+ strings. *)
(* Python values are records [t |-> type tag, v |-> payload].              *)
(***************************************************************************)
EXTENDS Integers, Sequences, FiniteSets, TLC

(***************************************************************************)
(* Bounds of the model.                                                    *)
(***************************************************************************)
MaxLen == 2          \* longest container of scalars in the input universe
MaxSetLen == 3       \* largest set in the set-permutation inputs
NumInv == 2          \* concurrent invocations in SpecConc
NumNames == 2        \* temporary names the platform can hand out
MaxTokens == 16      \* largest token count the tokenizer reports
ConcMaxTokens == 1   \* largest token count in SpecConc

(***************************************************************************)
(* Python values.                                                          *)
(***************************************************************************)
PyInt(n) == [t |-> "int", v |-> n]
PyStr(s) == [t |-> "str", v |-> s]
PyNone == [t |-> "none", v |-> 0]
PyBool(b) == [t |-> "bool", v |-> b]
PyList(s) == [t |-> "list", v |-> s]
PyTuple(s) == [t |-> "tuple", v |-> s]
\* a set object, given by the order in which it iterates its elements
PySet(s) == [t |-> "set", v |-> s]
\* a dict, given by its items in insertion order
PyDict(items) == [t |-> "dict", v |-> items]
\* an object with a __dict__, given by the items of that __dict__
PyObject(attrs) == [t |-> "object", v |-> attrs]
\* a bytes object, given by its display form
PyBytes(s) == [t |-> "bytes", v |-> s]
\* a reference to a heap object: the way a container can contain itself
PyRef(id) == [t |-> "ref", v |-> id]
\* an exception leaving a call
Raised(e) == [t |-> "raise", v |-> e]

\* a = []; a.append(a)
Heap == [id \in {1} |-> PyList(<<PyRef(1)>>)]

\* the interpreter's recursion limit; deeper than any acyclic input here
RecursionLimit == 6

(***************************************************************************)
(* str() and repr() of the values make_json_safe applies them to.          *)
(***************************************************************************)
RECURSIVE py_repr(_), JoinRepr(_), JoinItems(_)
JoinRepr(s) ==
    IF Len(s) = 0 THEN ""
    ELSE IF Len(s) = 1 THEN py_repr(s[1])
    ELSE py_repr(s[1]) \o ", " \o JoinRepr(Tail(s))

JoinItems(s) ==
    IF Len(s) = 0 THEN ""
    ELSE IF Len(s) = 1 THEN py_repr(s[1][1]) \o ": " \o py_repr(s[1][2])
    ELSE py_repr(s[1][1]) \o ": " \o py_repr(s[1][2]) \o ", " \o JoinItems(Tail(s))

py_repr(x) ==
    CASE x.t = "str" -> "'" \o x.v \o "'"
      [] x.t = "int" -> ToString(x.v)
      [] x.t = "none" -> "None"
      [] x.t = "bool" -> (IF x.v THEN "True" ELSE "False")
      [] x.t = "list" -> "[" \o JoinRepr(x.v) \o "]"
      [] x.t = "tuple" -> "(" \o JoinRepr(x.v) \o (IF Len(x.v) = 1 THEN "," ELSE "") \o ")"
      [] x.t = "dict" -> "{" \o JoinItems(x.v) \o "}"
      [] OTHER -> x.v

py_str(x) == IF x.t = "str" THEN x.v ELSE py_repr(x)

(***************************************************************************)
(* String comparison by code point, as sorted() compares str keys.         *)
(***************************************************************************)
Alphabet == " '(),0123456789:<>FNT[]abcdefghijklmnopqrstuvwxyz{}"

Ord(c) == CHOOSE i \in 1..Len(Alphabet) : SubSeq(Alphabet, i, i) = c

RECURSIVE StrLess(_, _)
StrLess(a, b) ==
    IF Len(b) = 0 THEN FALSE
    ELSE IF Len(a) = 0 THEN TRUE
    ELSE IF SubSeq(a, 1, 1) = SubSeq(b, 1, 1)
         THEN StrLess(SubSeq(a, 2, Len(a)), SubSeq(b, 2, Len(b)))
         ELSE Ord(SubSeq(a, 1, 1)) < Ord(SubSeq(b, 1, 1))

\* sorted(s, key=lambda x: str(x)): a stable sort, so elements whose keys
\* are equal stay in the order in which s has them
RECURSIVE sorted(_)
sorted(s) ==
    IF Len(s) = 0 THEN <<>>
    ELSE LET front == sorted(SubSeq(s, 1, Len(s) - 1))
             x == s[Len(s)]
             k == Cardinality({i \in 1..Len(front) :
                                  ~StrLess(py_str(x), py_str(front[i]))})
         IN SubSeq(front, 1, k) \o <<x>> \o SubSeq(front, k + 1, Len(front))

(***************************************************************************)
(* json.dumps: whether it accepts a value, and the text it produces with   *)
(* indent=2.                                                               *)
(***************************************************************************)
RECURSIVE JsonEncodable(_)
JsonEncodable(x) ==
    CASE x.t \in {"str", "int", "none", "bool"} -> TRUE
      [] x.t \in {"list", "tuple"} -> \A i \in 1..Len(x.v) : JsonEncodable(x.v[i])
      [] x.t = "dict" -> \A i \in 1..Len(x.v) :
                            /\ x.v[i][1].t \in {"str", "int", "none", "bool"}
                            /\ JsonEncodable(x.v[i][2])
      [] OTHER -> FALSE

RECURSIVE Indent(_)
Indent(n) == IF n = 0 THEN "" ELSE "  " \o Indent(n - 1)

JsonKey(k) ==
    CASE k.t = "str" -> k.v
      [] k.t = "int" -> ToString(k.v)
      [] k.t = "none" -> "null"
      [] OTHER -> (IF k.v THEN "true" ELSE "false")

RECURSIVE json_encode(_, _), EncodeElems(_, _), EncodeItems(_, _)
EncodeElems(s, lvl) ==
    IF Len(s) = 1 THEN Indent(lvl) \o json_encode(s[1], lvl)
    ELSE Indent(lvl) \o json_encode(s[1], lvl) \o ",\n" \o EncodeElems(Tail(s), lvl)

EncodeItems(s, lvl) ==
    LET item == Indent(lvl) \o "\"" \o JsonKey(s[1][1]) \o "\": "
                   \o json_encode(s[1][2], lvl)
    IN IF Len(s) = 1 THEN item ELSE item \o ",\n" \o EncodeItems(Tail(s), lvl)

json_encode(x, lvl) ==
    CASE x.t = "str" -> "\"" \o x.v \o "\""
      [] x.t = "int" -> ToString(x.v)
      [] x.t = "none" -> "null"
      [] x.t = "bool" -> (IF x.v THEN "true" ELSE "false")
      [] x.t \in {"list", "tuple"} ->
            (IF Len(x.v) = 0 THEN "[]"
             ELSE "[\n" \o EncodeElems(x.v, lvl + 1) \o "\n" \o Indent(lvl) \o "]")
      [] OTHER ->
            (IF Len(x.v) = 0 THEN "{}"
             ELSE "{\n" \o EncodeItems(x.v, lvl + 1) \o "\n" \o Indent(lvl) \o "}")

json_dumps(x) == json_encode(x, 0)

(***************************************************************************)
(* make_json_safe.                                                         *)
(***************************************************************************)
AnyRaised(s) == \E i \in 1..Len(s) : s[i].t = "raise"

FirstRaised(s) ==
    s[CHOOSE i \in 1..Len(s) : s[i].t = "raise" /\ \A j \in 1..(i - 1) : s[j].t # "raise"]

\* d[k] = x on a dict given by its items: a new key goes last, an existing
\* key keeps its place
DictStore(items, k, x) ==
    IF \E i \in 1..Len(items) : items[i][1] = k
    THEN [i \in 1..Len(items) |-> IF items[i][1] = k THEN <<k, x>> ELSE items[i]]
    ELSE Append(items, <<k, x>>)

\* lines 57-61 with the fallback left out: obj is returned as it is
Fallback_keep(obj) == obj

\* lines 57-61: obj if json.dumps accepts it, else str(obj)
Fallback(obj) == IF JsonEncodable(obj) THEN obj ELSE PyStr(py_str(obj))

RECURSIVE make_json_safe_rec(_, _), SafeElems(_, _), SafeItems(_, _)
\* [make_json_safe(v) for v in obj]
SafeElems(s, depth) ==
    IF Len(s) = 0 THEN <<>>
    ELSE <<make_json_safe_rec(s[1], depth + 1)>> \o SafeElems(Tail(s), depth)

\* {str(k): make_json_safe(v) for k, v in obj.items()}
SafeItems(s, depth) ==
    IF Len(s) = 0 THEN <<>>
    ELSE LET front == SafeItems(SubSeq(s, 1, Len(s) - 1), depth)
             last == s[Len(s)]
         IN DictStore(front, PyStr(py_str(last[1])),
                      make_json_safe_rec(last[2], depth + 1))

make_json_safe_rec(o, depth) ==
    LET obj == IF o.t = "ref" THEN Heap[o.v] ELSE o IN
    IF depth > RecursionLimit THEN Raised("RecursionError")
    ELSE CASE obj.t = "dict" ->
                (LET items == SafeItems(obj.v, depth)
                     vals == [i \in 1..Len(items) |-> items[i][2]]
                 IN IF AnyRaised(vals) THEN FirstRaised(vals) ELSE PyDict(items))
           [] obj.t \in {"list", "tuple"} ->
                (LET elems == SafeElems(obj.v, depth)
                 IN IF AnyRaised(elems) THEN FirstRaised(elems) ELSE PyList(elems))
           [] obj.t = "set" ->
                (LET elems == SafeElems(obj.v, depth)
                 IN IF AnyRaised(elems) THEN FirstRaised(elems)
                    ELSE PyList(sorted(elems)))
           [] obj.t = "object" -> make_json_safe_rec(PyDict(obj.v), depth + 1)
           [] OTHER -> Fallback(obj)

make_json_safe(obj) == make_json_safe_rec(obj, 0)

\* json.dumps(x, indent=2) as a call: the text, or the TypeError it raises
dumps(x) == IF JsonEncodable(x) THEN PyStr(json_dumps(x)) ELSE Raised("TypeError")

(***************************************************************************)
(* The input universe of the canonicalizer.                                *)
(***************************************************************************)
SeqsOver(S, n) == UNION {[1..k -> S] : k \in 0..n}

NoDup(s) == \A i, j \in 1..Len(s) : i # j => s[i] # s[j]

Scalars == {PyInt(1), PyInt(2), PyStr("1"), PyStr("a"), PyNone, PyBool(TRUE),
            PyBytes("b'x'")}

\* hashable values that are pairwise unequal in Python, so one set holds them
SetElems == {PyInt(1), PyInt(2), PyStr("1"), PyStr("a"), PyTuple(<<PyInt(1)>>)}

DictKeys == {PyInt(1), PyStr("1"), PyStr("a")}

AttrNames == {PyStr("a"), PyStr("b")}

ItemsOver(K, V, n) ==
    {s \in SeqsOver(K \X V, n) : \A i, j \in 1..Len(s) : i # j => s[i][1] # s[j][1]}

Level1 ==
    {PyList(s) : s \in SeqsOver(Scalars, MaxLen)}
      \cup {PyTuple(s) : s \in SeqsOver(Scalars, MaxLen)}
      \cup {PySet(s) : s \in {q \in SeqsOver(SetElems, MaxLen) : NoDup(q)}}
      \cup {PyDict(s) : s \in ItemsOver(DictKeys, Scalars, MaxLen)}
      \cup {PyObject(s) : s \in ItemsOver(AttrNames, Scalars, MaxLen)}

Level2 ==
    {PyList(<<x>>) : x \in Level1}
      \cup {PyTuple(<<x>>) : x \in Level1}
      \cup {PyDict(<<<<PyStr("a"), x>>>>) : x \in Level1}
      \cup {PyObject(<<<<PyStr("a"), x>>>>) : x \in Level1}

\* {"a": [1, 2, 3], "b": {1, 2}}
Scenario ==
    PyDict(<< <<PyStr("a"), PyList(<<PyInt(1), PyInt(2), PyInt(3)>>)>>,
              <<PyStr("b"), PySet(<<PyInt(2), PyInt(1)>>)>> >>)

Cyclic == PyRef(1)

Values == Scalars \cup Level1 \cup Level2 \cup {Scenario, Cyclic, PyList(<<Cyclic>>)}

\* two set objects with the same elements, each with its own iteration order
SetPairs ==
    {<<PySet(p), PySet(q)>> :
        p, q \in {s \in SeqsOver(SetElems, MaxSetLen) : NoDup(s)}}

SameElements(a, b) ==
    {a.v[i] : i \in 1..Len(a.v)} = {b.v[i] : i \in 1..Len(b.v)}

CanonInputs ==
    {<<x, x>> : x \in Values} \cup {pq \in SetPairs : SameElements(pq[1], pq[2])}

RECURSIVE Acyclic(_)
Acyclic(x) ==
    CASE x.t = "ref" -> FALSE
      [] x.t \in {"list", "tuple", "set"} -> \A i \in 1..Len(x.v) : Acyclic(x.v[i])
      [] x.t \in {"dict", "object"} -> \A i \in 1..Len(x.v) : Acyclic(x.v[i][2])
      [] OTHER -> TRUE

(***************************************************************************)
(* State.                                                                  *)
(***************************************************************************)
VARIABLES
    cpc,        \* canonicalizer runs: "input", "safe" or "dumped"
    obj,        \* canonicalizer runs: the two arguments of make_json_safe
    safe,       \* canonicalizer runs: the two results of make_json_safe
    text,       \* canonicalizer runs: the two results of json.dumps
    env,        \* what the platform offers at process start
    startup,    \* position of the module's top-level code
    tokenizer,  \* the module global
    loads,      \* calls of tiktoken.get_encoding so far
    fs,         \* the temporary directory: path -> content
    inv         \* the tool invocations

vars == <<cpc, obj, safe, text, env, startup, tokenizer, loads, fs, inv>>

(***************************************************************************)
(* Canonicalizer runs: make_json_safe, then json.dumps, on a pair of       *)
(* arguments.                                                              *)
(***************************************************************************)
Canonicalize ==
    /\ cpc = "input"
    /\ safe' = <<make_json_safe(obj[1]), make_json_safe(obj[2])>>
    /\ cpc' = "safe"
    /\ UNCHANGED <<obj, text, env, startup, tokenizer, loads, fs, inv>>

Serialize ==
    /\ cpc = "safe"
    /\ text' = <<IF safe[1].t = "raise" THEN safe[1] ELSE dumps(safe[1]),
                 IF safe[2].t = "raise" THEN safe[2] ELSE dumps(safe[2])>>
    /\ cpc' = "dumped"
    /\ UNCHANGED <<obj, safe, env, startup, tokenizer, loads, fs, inv>>

(***************************************************************************)
(* Module load: import tiktoken, then the guarded tokenizer set-up.        *)
(***************************************************************************)
\* line 8: the import is outside every try block
ImportTiktoken ==
    /\ startup = "import"
    /\ startup' = IF env.importable THEN "tokenizer" ELSE "crashed"
    /\ UNCHANGED <<cpc, obj, safe, text, env, tokenizer, loads, fs, inv>>

\* lines 24-29
LoadTokenizer ==
    /\ startup = "tokenizer"
    /\ loads' = loads + 1
    /\ tokenizer' = IF env.loadable THEN "o200k_base" ELSE "None"
    /\ startup' = "serving"
    /\ UNCHANGED <<cpc, obj, safe, text, env, fs, inv>>

(***************************************************************************)
(* count_tokens.  enc is what tokenizer.encode(text) does when called.     *)
(***************************************************************************)
Min(a, b) == IF a < b THEN a ELSE b

\* an encoding of a text has at least one token unless the text is empty,
\* and no more tokens than characters
Encodings(txt, maxTok) ==
    {[raises |-> TRUE, n |-> 0]}
      \cup {[raises |-> FALSE, n |-> k] :
              k \in (IF txt = "" THEN 0 ELSE 1)..Min(maxTok, Len(txt))}

count_tokens(txt, enc) ==
    IF tokenizer = "None" THEN -1
    ELSE IF enc.raises THEN -1 ELSE enc.n

\* the calls of tokenizer.encode that one call of count_tokens makes
EncodeCalls == IF tokenizer = "None" THEN 0 ELSE 1

(***************************************************************************)
(* The report texts of toon_with_stats.                                    *)
(***************************************************************************)
\* the three grave accents of a Markdown fence; a TLA+ string cannot hold
\* that character, so tildes stand for it
Fence == "~~~"

\* lines 97-103 without the JSON OUTPUT part
CliFailedReport_nojson(stderr, json_str) ==
    Fence \o "error\n" \o "TOON CLI failed:\n" \o stderr \o "\n" \o Fence

\* lines 97-103
CliFailedReport(stderr, json_str) ==
    Fence \o "error\n" \o "TOON CLI failed:\n" \o stderr \o "\n\n"
       \o "JSON OUTPUT:\n" \o json_str \o "\n" \o Fence

\* lines 110-116
SubprocessErrorReport(e, json_str) ==
    Fence \o "error\n" \o "TOON subprocess error:\n" \o e \o "\n\n"
       \o "JSON OUTPUT:\n" \o json_str \o "\n" \o Fence

Abs(n) == IF n < 0 THEN -n ELSE n

\* n/d cut off instead of rounded
RoundHalfEven_floor(n, d) == n \div d

\* n/d rounded to the nearest integer, a tie to the even one: the rounding
\* of the .1f format on the tenths of its argument
RoundHalfEven(n, d) ==
    LET sgn == IF (n < 0) # (d < 0) THEN -1 ELSE 1
        an == Abs(n)
        ad == Abs(d)
        q == an \div ad
        r == an % ad
        m == IF 2 * r < ad THEN q
             ELSE IF 2 * r > ad THEN q + 1
             ELSE IF q % 2 = 0 THEN q ELSE q + 1
    IN sgn * m

\* f"{reduction:.1f}" for reduction = 100 * (1 - toon_tokens / json_tokens).
\* The quotient is taken exactly.  Binary floating point agrees with that
\* except at a tie whose json_tokens is not a power of two (the first is 80),
\* where its rounding error picks one of the two nearest tenths.
Reduction1f(json_tokens, toon_tokens) ==
    LET tenths == RoundHalfEven(1000 * (json_tokens - toon_tokens), json_tokens)
        neg == (json_tokens - toon_tokens < 0) # (json_tokens < 0)
    IN (IF neg THEN "-" ELSE "")
          \o ToString(Abs(tenths) \div 10) \o "." \o ToString(Abs(tenths) % 10)

\* line 124 testing for "not zero" instead of "positive"
HasSavings_nonzero(json_tokens, toon_tokens) == json_tokens # 0 /\ toon_tokens # 0

\* line 124
HasSavings(json_tokens, toon_tokens) == json_tokens > 0 /\ toon_tokens > 0

\* lines 124-133
savings_text(json_tokens, toon_tokens) ==
    IF HasSavings(json_tokens, toon_tokens)
    THEN "\n\n# Token Savings\n"
            \o "- JSON tokens: " \o ToString(json_tokens) \o "\n"
            \o "- TOON tokens: " \o ToString(toon_tokens) \o "\n"
            \o "- Saved: " \o Reduction1f(json_tokens, toon_tokens) \o "%\n"
    ELSE "\n\n# Token Savings\n(unavailable)\n"

\* line 138
SuccessReport(toon_str, savings) == Fence \o "toon\n" \o toon_str \o "\n" \o Fence \o savings

(***************************************************************************)
(* The platform around toon_with_stats: json.loads, the temporary          *)
(* directory and the external converter.                                   *)
(***************************************************************************)
\* json.loads on the texts the model hands to to_toon_from_string
json_loads(json_text) ==
    CASE json_text = "[1, 2]" -> PyList(<<PyInt(1), PyInt(2)>>)
      [] json_text = "{\"a\": \"1\", \"b\": [null, true]}" ->
            PyDict(<< <<PyStr("a"), PyStr("1")>>,
                      <<PyStr("b"), PyList(<<PyNone, PyBool(TRUE)>>)>> >>)
      [] json_text = "2" -> PyInt(2)
      [] json_text = "{not valid json" ->
            Raised("Expecting property name enclosed in double quotes: line 1 column 2 (char 1)")
      [] OTHER -> Raised("Expecting value: line 1 column 1 (char 0)")

\* line 173 with the except clause never taken
ParseFailed_never(parsed) == FALSE

\* line 173: json.loads raised
ParseFailed(parsed) == parsed.t = "raise"

\* the name NamedTemporaryFile gives its n-th candidate, suffix included
TempName(n) == "/tmp/tmp" \o ToString(n) \o ".json"

\* a temporary file opened without the exclusive flag: every name is handed out
FreshNames_any(files) == 1..NumNames

\* the candidates NamedTemporaryFile can still create: it opens a file
\* exclusively, so a name that exists is never handed out
FreshNames(files) == {n \in 1..NumNames : TempName(n) \notin DOMAIN files}

\* what the converter writes for the JSON text it read; the TOON grammar
\* is the converter's own, so the text is left uninterpreted
ToonOf(json) == "toon<" \o json \o ">"

StderrTexts == {"bad input"}

\* line 95 with the status never looked at
CliFailed_never(returncode) == FALSE

\* line 95
CliFailed(returncode) == returncode # 0

(***************************************************************************)
(* Tool invocations.                                                       *)
(***************************************************************************)
Invs == 1..NumInv

IdleInv ==
    [pc |-> "idle", entry |-> "", json_text |-> "", data |-> PyNone,
     json_str |-> "", src |-> "", dst |-> "", exited |-> FALSE,
     returncode |-> 0, stderr |-> "", toon_str |-> "",
     json_tokens |-> 0, toon_tokens |-> 0, kind |-> "none", result |-> "",
     launches |-> 0, reads |-> 0, encodes |-> 0, divs |-> <<>>,
     proc_in |-> "", proc_out |-> ""]

Rest == <<cpc, obj, safe, text, env, startup, tokenizer, loads>>

\* lines 154-162: to_toon calls toon_with_stats(data)
to_toon(i, data) ==
    /\ startup = "serving"
    /\ inv[i].pc = "idle"
    /\ inv' = [inv EXCEPT ![i] = [@ EXCEPT !.pc = "normalize",
                                          !.entry = "to_toon",
                                          !.data = data]]
    /\ UNCHANGED <<Rest, fs>>

\* lines 165-175: json.loads, then ValueError or toon_with_stats(parsed)
to_toon_from_string(i, json_text) ==
    /\ startup = "serving"
    /\ inv[i].pc = "idle"
    /\ LET parsed == json_loads(json_text) IN
       inv' = [inv EXCEPT ![i] =
                 IF ParseFailed(parsed)
                 THEN [@ EXCEPT !.pc = "done",
                                !.entry = "to_toon_from_string",
                                !.json_text = json_text,
                                !.kind = "raised",
                                !.result = "Could not parse JSON string: " \o parsed.v]
                 ELSE [@ EXCEPT !.pc = "normalize",
                                !.entry = "to_toon_from_string",
                                !.json_text = json_text,
                                !.data = parsed]]
    /\ UNCHANGED <<Rest, fs>>

\* lines 77-78: both calls are outside the try block, so what they raise
\* leaves toon_with_stats
Normalize(i) ==
    /\ inv[i].pc = "normalize"
    /\ LET made == make_json_safe(inv[i].data)
           dumped == IF made.t = "raise" THEN made ELSE dumps(made)
       IN inv' = [inv EXCEPT ![i] =
                    IF dumped.t = "raise"
                    THEN [@ EXCEPT !.pc = "done", !.kind = "raised",
                                   !.result = dumped.v]
                    ELSE [@ EXCEPT !.pc = "tempfile", !.json_str = dumped.v]]
    /\ UNCHANGED <<Rest, fs>>

\* lines 84-88
WriteTemp(i) ==
    /\ inv[i].pc = "tempfile"
    /\ \E n \in FreshNames(fs) :
         /\ fs' = (TempName(n) :> inv[i].json_str) @@ fs
         /\ inv' = [inv EXCEPT ![i] = [@ EXCEPT !.pc = "run",
                                                !.src = TempName(n),
                                                !.dst = TempName(n) \o ".toon"]]
    /\ UNCHANGED Rest

\* line 93: the converter process starts
Launch(i) ==
    /\ inv[i].pc = "run"
    /\ inv' = [inv EXCEPT ![i] = [@ EXCEPT !.pc = "running",
                                           !.launches = @ + 1]]
    /\ UNCHANGED <<Rest, fs>>

\* the converter reads the source path and ends: with the TOON text
\* written and status 0, with status 0 and nothing written, or with a
\* diagnostic on standard error and status 1
ConverterExit(i) ==
    /\ inv[i].pc = "running"
    /\ \/ /\ fs' = (inv[i].dst :> ToonOf(fs[inv[i].src])) @@ fs
          /\ inv' = [inv EXCEPT ![i] = [@ EXCEPT !.pc = "returned",
                                                 !.exited = TRUE,
                                                 !.returncode = 0,
                                                 !.proc_in = fs[inv[i].src],
                                                 !.proc_out = ToonOf(fs[inv[i].src])]]
       \/ /\ fs' = fs
          /\ inv' = [inv EXCEPT ![i] = [@ EXCEPT !.pc = "returned",
                                                 !.exited = TRUE,
                                                 !.returncode = 0,
                                                 !.proc_in = fs[inv[i].src]]]
       \/ \E err \in StderrTexts :
          /\ fs' = fs
          /\ inv' = [inv EXCEPT ![i] = [@ EXCEPT !.pc = "returned",
                                                 !.exited = TRUE,
                                                 !.returncode = 1,
                                                 !.stderr = err,
                                                 !.proc_in = fs[inv[i].src]]]
    /\ UNCHANGED Rest

\* lines 95-103
ReturnCliFailed(i) ==
    /\ inv[i].pc = "returned"
    /\ CliFailed(inv[i].returncode)
    /\ inv' = [inv EXCEPT ![i] =
                 [@ EXCEPT !.pc = "done", !.kind = "cli_failed",
                           !.result = CliFailedReport(inv[i].stderr, inv[i].json_str)]]
    /\ UNCHANGED <<Rest, fs>>

\* lines 105-106
ReadDst(i) ==
    /\ inv[i].pc = "returned"
    /\ ~CliFailed(inv[i].returncode)
    /\ inv[i].dst \in DOMAIN fs
    /\ inv' = [inv EXCEPT ![i] = [@ EXCEPT !.pc = "count",
                                           !.reads = @ + 1,
                                           !.toon_str = fs[inv[i].dst]]]
    /\ UNCHANGED <<Rest, fs>>

\* lines 108-116: what the try block raises, and where
Faults(i) ==
    CASE inv[i].pc = "tempfile" ->
            {"[Errno 28] No space left on device"}
              \cup (IF FreshNames(fs) = {}
                    THEN {"[Errno 17] No usable temporary file name found"}
                    ELSE {})
      [] inv[i].pc = "run" ->
            {"[Errno 2] No such file or directory: 'toon-format'"}
      [] inv[i].pc = "returned" /\ ~CliFailed(inv[i].returncode)
            /\ inv[i].dst \notin DOMAIN fs ->
            {"[Errno 2] No such file or directory: '" \o inv[i].dst \o "'"}
      [] OTHER -> {}

SubprocessError(i) ==
    /\ \E e \in Faults(i) :
         inv' = [inv EXCEPT ![i] =
                   [@ EXCEPT !.pc = "done", !.kind = "subprocess_error",
                             !.reads = IF inv[i].pc = "returned" THEN @ + 1 ELSE @,
                             !.result = SubprocessErrorReport(e, inv[i].json_str)]]
    /\ UNCHANGED <<Rest, fs>>

\* lines 121-138
Finish(i, maxTok) ==
    /\ inv[i].pc = "count"
    /\ \E je \in Encodings(inv[i].json_str, maxTok),
          te \in Encodings(inv[i].toon_str, maxTok) :
         LET json_tokens == count_tokens(inv[i].json_str, je)
             toon_tokens == count_tokens(inv[i].toon_str, te)
         IN inv' = [inv EXCEPT ![i] =
                      [@ EXCEPT !.pc = "done", !.kind = "success",
                                !.json_tokens = json_tokens,
                                !.toon_tokens = toon_tokens,
                                !.encodes = @ + 2 * EncodeCalls,
                                !.divs = IF HasSavings(json_tokens, toon_tokens)
                                         THEN Append(@, json_tokens) ELSE @,
                                !.result = SuccessReport(inv[i].toon_str,
                                              savings_text(json_tokens, toon_tokens))]]
    /\ UNCHANGED <<Rest, fs>>

(***************************************************************************)
(* Specifications.                                                         *)
(***************************************************************************)
Envs == [importable : BOOLEAN, loadable : BOOLEAN]

InputValues ==
    {Scenario, Cyclic, PyInt(1), PyList(<<>>), PySet(<<PyStr("1"), PyInt(1)>>),
     PyObject(<< <<PyStr("a"), PyBytes("b'x'")>> >>)}

JsonTexts == {"[1, 2]", "{\"a\": \"1\", \"b\": [null, true]}", "2", "{not valid json", ""}

ConcValues == {PyInt(1), PyList(<<PyInt(2)>>)}

InitServer ==
    /\ env \in Envs
    /\ startup = "import"
    /\ tokenizer = "unset"
    /\ loads = 0
    /\ fs = <<>>
    /\ inv = [i \in Invs |-> IdleInv]

\* one server process, one tool call
Init ==
    /\ InitServer
    /\ cpc = "off"
    /\ obj = <<PyNone, PyNone>>
    /\ safe = <<PyNone, PyNone>>
    /\ text = <<PyNone, PyNone>>

Next ==
    \/ ImportTiktoken
    \/ LoadTokenizer
    \/ \E data \in InputValues : to_toon(1, data)
    \/ \E json_text \in JsonTexts : to_toon_from_string(1, json_text)
    \/ Normalize(1)
    \/ WriteTemp(1)
    \/ Launch(1)
    \/ ConverterExit(1)
    \/ ReturnCliFailed(1)
    \/ ReadDst(1)
    \/ SubprocessError(1)
    \/ Finish(1, MaxTokens)

Spec == Init /\ [][Next]_vars

\* one server process, NumInv tool calls running concurrently
NextConc ==
    \/ ImportTiktoken
    \/ LoadTokenizer
    \/ \E i \in Invs :
         \/ \E data \in ConcValues : to_toon(i, data)
         \/ Normalize(i)
         \/ WriteTemp(i)
         \/ Launch(i)
         \/ ConverterExit(i)
         \/ ReturnCliFailed(i)
         \/ ReadDst(i)
         \/ SubprocessError(i)
         \/ Finish(i, ConcMaxTokens)

SpecConc == Init /\ [][NextConc]_vars

\* make_json_safe and json.dumps alone, on every input of the universe
InitCanon ==
    /\ InitServer
    /\ cpc = "input"
    /\ obj \in CanonInputs
    /\ safe = <<PyNone, PyNone>>
    /\ text = <<PyNone, PyNone>>

NextCanon == Canonicalize \/ Serialize

SpecCanon == InitCanon /\ [][NextCanon]_vars

TypeOK == \A i \in Invs : inv[i].pc \in {"idle", "normalize", "tempfile", "run",
                                         "running", "returned", "count", "done"}

(***************************************************************************)
(* Properties.                                                             *)
(***************************************************************************)
Contains(s, t) == \E k \in 0..(Len(s) - Len(t)) : SubSeq(s, k + 1, k + Len(t)) = t

StartsWith(s, t) == Len(t) <= Len(s) /\ SubSeq(s, 1, Len(t)) = t

\* C1: every call of the value entry point ends by returning a non-empty
\* report, never by raising, whatever goes wrong in make_json_safe,
\* json.dumps, the temporary file, the launch or the read.
C1_ValueEntryNeverRaises ==
    \A i \in Invs :
        (inv[i].entry = "to_toon" /\ inv[i].pc = "done")
            => (inv[i].kind # "raised" /\ inv[i].result # "")

\* C2: after a non-zero exit of the converter the report is an error block
\* holding the captured standard error and the pretty-printed JSON of the
\* input, and no Token Savings section.
C2_CliFailedReport ==
    \A i \in Invs :
        (inv[i].pc = "done" /\ inv[i].exited /\ inv[i].returncode # 0)
            => /\ StartsWith(inv[i].result, Fence \o "error\n")
               /\ Contains(inv[i].result, inv[i].stderr)
               /\ inv[i].json_str = json_dumps(make_json_safe(inv[i].data))
               /\ Contains(inv[i].result, inv[i].json_str)
               /\ ~Contains(inv[i].result, "Token Savings")

C2_Witness ==
    \E i \in Invs :
        /\ inv[i].pc = "done" /\ inv[i].exited /\ inv[i].returncode # 0
        /\ inv[i].stderr = "bad input"
        /\ inv[i].data = Scenario

\* C3: a success report made without a token count for either text has the
\* fenced TOON text, then the (unavailable) marker, and no percentage; and
\* the division is only ever done with a positive json_tokens.
C3_UnavailableSavings ==
    \A i \in Invs :
        /\ (inv[i].kind = "success"
              /\ (inv[i].json_tokens = -1 \/ inv[i].toon_tokens = -1))
            => LET block == Fence \o "toon\n" \o inv[i].toon_str \o "\n" \o Fence
               IN /\ StartsWith(inv[i].result, block)
                  /\ Contains(SubSeq(inv[i].result, Len(block) + 1,
                                     Len(inv[i].result)), "(unavailable)")
                  /\ ~Contains(inv[i].result, "%")
                  /\ ~Contains(inv[i].result, "- Saved:")
        /\ \A k \in 1..Len(inv[i].divs) :
              inv[i].divs[k] > 0 /\ inv[i].divs[k] = inv[i].json_tokens

C3_Witness ==
    \E i \in Invs :
        /\ inv[i].kind = "success"
        /\ tokenizer = "o200k_base"
        /\ inv[i].json_tokens = -1
        /\ inv[i].toon_tokens > 0

\* C4: make_json_safe of two sets with the same elements gives the same
\* list, whatever order each set iterates in, also when two different
\* elements have the same str().
C4_SetOrderIndependent ==
    (cpc # "input" /\ obj[1].t = "set" /\ obj[2].t = "set"
        /\ SameElements(obj[1], obj[2]))
        => safe[1] = safe[2]

\* C5: to_toon_from_string on text that is not JSON raises an error that
\* describes the parse failure, gives no report, writes no temporary file
\* and launches nothing; on text that is JSON it goes on as toon_with_stats
\* does for the parsed value.
C5_TextEntry ==
    \A i \in Invs :
        inv[i].entry = "to_toon_from_string"
            => LET parsed == json_loads(inv[i].json_text) IN
               IF parsed.t = "raise"
               THEN /\ inv[i].pc = "done"
                    /\ inv[i].kind = "raised"
                    /\ Contains(inv[i].result, "Could not parse JSON")
                    /\ Contains(inv[i].result, parsed.v)
                    /\ inv[i].json_str = "" /\ inv[i].src = ""
                    /\ inv[i].launches = 0
                    /\ DOMAIN fs = {}
               ELSE /\ inv[i].data = parsed
                    /\ inv[i].pc \notin {"idle", "normalize"}
                         => /\ inv[i].kind # "raised"
                            /\ inv[i].json_str = json_dumps(make_json_safe(parsed))
                    /\ inv[i].kind = "success"
                         => Contains(inv[i].result,
                                     ToonOf(json_dumps(make_json_safe(parsed))))
                    /\ inv[i].kind \in {"cli_failed", "subprocess_error"}
                         => Contains(inv[i].result, json_dumps(make_json_safe(parsed)))

C5_Witness ==
    \E i \in Invs :
        /\ inv[i].entry = "to_toon_from_string"
        /\ inv[i].json_text = "{not valid json"
        /\ inv[i].pc = "done"
        /\ inv[i].kind = "raised"

\* C6: when tiktoken cannot be imported or the encoding cannot be loaded,
\* start-up still completes, the outcome is recorded once as "unavailable",
\* count_tokens gives the sentinel without encoding, and the set-up is not
\* tried again.
C6_StartupSurvives ==
    (~env.importable \/ ~env.loadable)
        => /\ startup # "crashed"
           /\ loads <= 1
           /\ startup = "serving" => (tokenizer = "None" /\ loads = 1)
           /\ \A i \in Invs :
                 /\ inv[i].encodes = 0
                 /\ inv[i].kind = "success"
                      => (inv[i].json_tokens = -1 /\ inv[i].toon_tokens = -1)

\* C7: concurrent invocations never share a source or destination path,
\* and the TOON text of a success report is what the invocation's own
\* converter process wrote for the invocation's own JSON text.
C7_Isolation ==
    /\ \A i, j \in Invs :
          (i # j /\ inv[i].src # "" /\ inv[j].src # "")
              => {inv[i].src, inv[i].dst} \cap {inv[j].src, inv[j].dst} = {}
    /\ \A i \in Invs :
          inv[i].kind = "success"
              => /\ inv[i].proc_in = inv[i].json_str
                 /\ inv[i].proc_out = inv[i].toon_str
                 /\ inv[i].toon_str = ToonOf(inv[i].json_str)
                 /\ Contains(inv[i].result, ToonOf(inv[i].json_str))

C7_Witness ==
    \E i, j \in Invs :
        /\ i # j
        /\ inv[i].kind = "success"
        /\ inv[j].pc \in {"running", "returned", "count"}
        /\ inv[i].json_str # inv[j].json_str

\* C8: for an acyclic input, make_json_safe returns a canonical value
\* (string-keyed mapping, list, string, number, boolean or null) that
\* json.dumps accepts, and an empty container stays an empty container.
RECURSIVE IsCanonical(_)
IsCanonical(x) ==
    CASE x.t \in {"str", "int", "none", "bool"} -> TRUE
      [] x.t = "list" -> \A i \in 1..Len(x.v) : IsCanonical(x.v[i])
      [] x.t = "dict" -> \A i \in 1..Len(x.v) :
                            x.v[i][1].t = "str" /\ IsCanonical(x.v[i][2])
      [] OTHER -> FALSE

IsContainer(x) == x.t \in {"list", "tuple", "set", "dict", "object"}

Dec1(tenths) == ToString(tenths \div 10) \o "." \o ToString(tenths % 10)

C9_SavingsPercentage ==
    \A i \in Invs :
        (inv[i].kind = "success" /\ inv[i].json_tokens > inv[i].toon_tokens
            /\ inv[i].toon_tokens > 0)
            => LET N == inv[i].json_tokens
                   M == inv[i].toon_tokens
               IN /\ Contains(inv[i].result, "- JSON tokens: " \o ToString(N) \o "\n")
                  /\ Contains(inv[i].result, "- TOON tokens: " \o ToString(M) \o "\n")
                  /\ \E tenths \in 0..1000 :
                        /\ 2 * Abs(tenths * N - 1000 * (N - M)) <= N
                        /\ Contains(inv[i].result,
                                    "- Saved: " \o Dec1(tenths) \o "%\n")

C9_Witness ==
    \E i \in Invs :
        /\ inv[i].kind = "success"
        /\ inv[i].json_tokens = 3
        /\ inv[i].toon_tokens = 1
        /\ Contains(inv[i].result, "- Saved: 66.7%\n")

\* C10: an invocation launches the converter at most once; a non-zero exit
\* ends it with the converter-failed report and no read of the destination;
\* a fault ends it with the invocation-error report; a success report needs
\* a zero exit and a read of the destination.
C10_NoRetry ==
    \A i \in Invs :
        /\ inv[i].launches <= 1
        /\ (inv[i].exited /\ inv[i].returncode # 0)
              => /\ inv[i].reads = 0
                 /\ inv[i].pc \in {"returned", "done"}
                 /\ inv[i].pc = "done" => inv[i].kind = "cli_failed"
        /\ inv[i].kind \in {"cli_failed", "subprocess_error"} => inv[i].pc = "done"
        /\ inv[i].kind = "subprocess_error"
              => StartsWith(inv[i].result, Fence \o "error\nTOON subprocess error:\n")
        /\ inv[i].kind = "success"
              => /\ inv[i].exited /\ inv[i].returncode = 0
                 /\ inv[i].reads = 1 /\ inv[i].launches = 1

C10_Witness ==
    \E i \in Invs :
        /\ inv[i].pc = "done"
        /\ inv[i].exited /\ inv[i].returncode # 0
        /\ inv[i].launches = 1
        /\ inv[i].kind = "cli_failed"

====
